---- MODULE Spec2Model ----
(***************************************************************************)
(* WeatherMCPClient (weather_gradio_app.py): the client that spawns the    *)
(* weather tool-server as a child process, performs the MCP handshake over *)
(* the child's stdin/stdout, discovers its tools and issues tools/call     *)
(* requests.  The client object is the module-level singleton mcp_client,  *)
(* shared by the UI's event handlers, which run on worker threads.         *)
(***************************************************************************)
EXTENDS Integers, Sequences, FiniteSets, TLC

(***************************************************************************)
(* Bounds of the model.                                                    *)
(***************************************************************************)
MaxProcs == 2      \* child processes spawned over a run
MaxLog == 6        \* events recorded after a spawn: the first MaxLog on the pipes
MaxTools == 2      \* entries of a tools/list result

\* The threads that call the client: the UI's event handlers (lines 466-505)
\* run on worker threads and share the one client object (line 401).
Callers == {"t1", "t2"}

None == 0          \* server_process = None

(***************************************************************************)
(* JSON values on the wire.  A tools/list entry, a result payload, an      *)
(* error member and a line of the child's stdout are records with the same *)
(* fields throughout; has* says whether the key is present.                *)
(***************************************************************************)
\* inputSchema values: a JSON object with a properties member, and a JSON
\* array (a value that is no object and is truthy).
SchemaDict == "{properties}"
SchemaList == "[list]"

ToolEntries ==
    { [hasName |-> TRUE, name |-> "get_forecast", hasDesc |-> FALSE, desc |-> "",
       hasSchema |-> FALSE, schema |-> ""],
      [hasName |-> TRUE, name |-> "get_alerts", hasDesc |-> TRUE, desc |-> "Get alerts",
       hasSchema |-> TRUE, schema |-> SchemaDict],
      [hasName |-> TRUE, name |-> "get_radar", hasDesc |-> FALSE, desc |-> "",
       hasSchema |-> TRUE, schema |-> SchemaList],
      [hasName |-> FALSE, name |-> "", hasDesc |-> TRUE, desc |-> "Nameless",
       hasSchema |-> FALSE, schema |-> ""] }

\* The tools arrays a reply can carry: up to MaxTools entries, no entry twice.
ToolLists ==
    UNION { { ts \in [1..n -> ToolEntries] : \A i, j \in 1..n : ts[i] = ts[j] => i = j } :
            n \in 0..MaxTools }

\* t: "none" (no payload), "null", "list" (a JSON value that is no object), "dict"
NoPayload == [t |-> "none", isError |-> FALSE, hasTools |-> FALSE, tools |-> <<>>]
PNull == [t |-> "null", isError |-> FALSE, hasTools |-> FALSE, tools |-> <<>>]
PList == [t |-> "list", isError |-> FALSE, hasTools |-> FALSE, tools |-> <<>>]
PDict(isErr) == [t |-> "dict", isError |-> isErr, hasTools |-> FALSE, tools |-> <<>>]
PTools(ts) == [t |-> "dict", isError |-> FALSE, hasTools |-> TRUE, tools |-> ts]

Payloads == {PNull, PList, PDict(FALSE), PDict(TRUE)} \cup { PTools(ts) : ts \in ToolLists }

NoErr == [isDict |-> FALSE, hasMsg |-> FALSE, msg |-> ""]
ErrMsg(m) == [isDict |-> TRUE, hasMsg |-> TRUE, msg |-> m]
ErrNoMsg == [isDict |-> TRUE, hasMsg |-> FALSE, msg |-> ""]
ErrStr == [isDict |-> FALSE, hasMsg |-> FALSE, msg |-> "boom"]

Messages == {"Invalid params", "Unknown tool"}
ErrVals == { ErrMsg(m) : m \in Messages } \cup {ErrNoMsg, ErrStr}

\* The id member of a line.  A request's id is a fresh uuid4 string; the id of
\* the request a thread has outstanding is written as the thread's name, and
\* StaleId is any other id string (of an earlier request, or of none).
NoId == "none"
StaleId == "stale"

\* form: "noread"    readline() was not called
\*       "eof"       readline() returned '' (stdout closed)
\*       "malformed" a line that is no JSON text (a blank line included)
\*       "falsy"     a JSON value that is no object and is falsy (null, [], 0, "")
\*       "number"    a JSON number other than 0
\*       "emptyobj"  the line {}
\*       "object"    a JSON object with the jsonrpc member
Plain(form) ==
    [form |-> form, hasResult |-> FALSE, result |-> NoPayload,
     hasError |-> FALSE, error |-> NoErr, id |-> NoId]

Obj(hasR, r, hasE, e, id) ==
    [form |-> "object", hasResult |-> hasR, result |-> r,
     hasError |-> hasE, error |-> e, id |-> id]

NoRead == Plain("noread")
Eof == Plain("eof")

\* The lines a child can print in reply to a request of the given method,
\* when the ids of the outstanding requests written to it are ids.  The reply
\* to initialize is parsed and then ignored (line 142); a tools/list reply is
\* read for its tools, a tools/call reply for its result or error.
ResultsFor(method) ==
    IF method = "initialize" THEN {PDict(FALSE)}
    ELSE IF method = "tools/list" THEN {PNull, PDict(FALSE)} \cup { PTools(ts) : ts \in ToolLists }
    ELSE {PNull, PList, PDict(FALSE), PDict(TRUE), PTools(<<>>)}

ErrorsFor(method) ==
    IF method = "tools/call" THEN ErrVals ELSE {ErrMsg("Invalid params")}

LinesWith(method, ids) ==
    { Plain(f) : f \in {"malformed", "falsy", "number", "emptyobj"} }
    \cup { Obj(FALSE, NoPayload, FALSE, NoErr, i) : i \in ids \cup {NoId} }
    \cup { Obj(TRUE, r, FALSE, NoErr, i) : r \in ResultsFor(method), i \in ids }
    \cup { Obj(FALSE, NoPayload, TRUE, e, i) : e \in ErrorsFor(method), i \in ids }
    \cup { Obj(TRUE, PNull, TRUE, e, i) : e \in ErrorsFor(method), i \in ids }
    \cup { Obj(TRUE, PDict(FALSE), FALSE, NoErr, i) : i \in {NoId, StaleId} }
    \cup { Obj(FALSE, NoPayload, TRUE, ErrMsg("Invalid params"), NoId) }

(***************************************************************************)
(* Texts of the exceptions the code raises (str(e)).                       *)
(***************************************************************************)
ExcNotStarted == "MCP server not started"
ExcJSONDecode == "Expecting value: line 1 column 1 (char 0)"
ExcBrokenPipe == "[Errno 32] Broken pipe"
ExcNoneStdin == "'NoneType' object has no attribute 'stdin'"
ExcNoneStdout == "'NoneType' object has no attribute 'stdout'"
ExcNotIterable == "argument of type 'int' is not iterable"
ExcKeyMessage == "'message'"
ExcStrIndex == "string indices must be integers"
ExcNoGet == "object has no attribute 'get'"
ExcKeyName == "'name'"
ExcSpawn == "[Errno 2] No such file or directory"
ExcListGet == "'list' object has no attribute 'get'"
ExcNoneGet == "'NoneType' object has no attribute 'get'"
ExcNoneIn == "argument of type 'NoneType' is not iterable"
NoExc == ""

NotConnectedMessage == "Not connected to MCP server"
UnknownFormatMessage == "Unknown response format"

(***************************************************************************)
(* Results of call_tool: the dict it returns.  success is "True", "False"  *)
(* or "absent" (the not-connected dict has no success key); error is the   *)
(* error text, or NoErrorKey when the dict has no error key.               *)
(***************************************************************************)
NoErrorKey == "<no error key>"
Success(d) == [success |-> "True", error |-> NoErrorKey, data |-> d]
Failure(m) == [success |-> "False", error |-> m, data |-> NoPayload]
NotConnected == [success |-> "absent", error |-> NotConnectedMessage, data |-> NoPayload]
NoValue == [success |-> "absent", error |-> NoErrorKey, data |-> NoPayload]

\* A Python evaluation: it returns val, or raises an exception of text exc.
Returns(v) == [raised |-> FALSE, exc |-> NoExc, val |-> v]
Raises(e, v) == [raised |-> TRUE, exc |-> e, val |-> v]

(***************************************************************************)
(* send_request, lines 174-181: what it makes of the line readline() gave. *)
(* json.loads raises on a line that is no JSON text; an empty read ('')    *)
(* falls through to `return {}`.                                            *)
(***************************************************************************)

\* mutant: a line that is no JSON text is swallowed and treated as no reply
ParseLine_Lenient(line) ==
    IF line.form \in {"eof", "malformed"} THEN Returns(Plain("emptyobj")) ELSE Returns(line)

ParseLine(line) ==
    IF line.form = "eof" THEN Returns(Plain("emptyobj"))
    ELSE IF line.form = "malformed" THEN Raises(ExcJSONDecode, Plain("emptyobj"))
    ELSE Returns(line)

\* bool(response)
Truthy(resp) == resp.form \in {"object", "number"}

(***************************************************************************)
(* call_tool, lines 252-266, on the response send_request returned.        *)
(***************************************************************************)

\* mutant: `if response.get("result")` in place of `"result" in response`
CallToolBody_TruthyResult(resp) ==
    IF ~Truthy(resp) THEN Returns(Failure(UnknownFormatMessage))
    ELSE IF resp.form = "number" THEN Raises(ExcNotIterable, NoValue)
    ELSE IF resp.hasResult /\ resp.result \notin {PNull, PDict(FALSE)}
         THEN Returns(Success(resp.result))
    ELSE IF resp.hasError THEN
        IF ~resp.error.isDict THEN Raises(ExcStrIndex, NoValue)
        ELSE IF ~resp.error.hasMsg THEN Raises(ExcKeyMessage, NoValue)
        ELSE Returns(Failure(resp.error.msg))
    ELSE Returns(Failure(UnknownFormatMessage))

\* mutant: the error branch reports str(response["error"]), not its message
CallToolBody_WholeError(resp) ==
    IF ~Truthy(resp) THEN Returns(Failure(UnknownFormatMessage))
    ELSE IF resp.form = "number" THEN Raises(ExcNotIterable, NoValue)
    ELSE IF resp.hasResult THEN Returns(Success(resp.result))
    ELSE IF resp.hasError THEN Returns(Failure("{'code': -32602, 'message': ...}"))
    ELSE Returns(Failure(UnknownFormatMessage))

\* mutant: no final else branch: the last case reads response["error"] unchecked
CallToolBody_NoElse(resp) ==
    IF ~Truthy(resp) THEN Returns(Failure(UnknownFormatMessage))
    ELSE IF resp.form = "number" THEN Raises(ExcNotIterable, NoValue)
    ELSE IF resp.hasResult THEN Returns(Success(resp.result))
    ELSE IF ~resp.hasError THEN Raises("'error'", NoValue)
    ELSE IF ~resp.error.isDict THEN Raises(ExcStrIndex, NoValue)
    ELSE IF ~resp.error.hasMsg THEN Raises(ExcKeyMessage, NoValue)
    ELSE Returns(Failure(resp.error.msg))

CallToolBody(resp) ==
    IF ~Truthy(resp) THEN Returns(Failure(UnknownFormatMessage))
    ELSE IF resp.form = "number" THEN Raises(ExcNotIterable, NoValue)
    ELSE IF resp.hasResult THEN Returns(Success(resp.result))
    ELSE IF resp.hasError THEN
        IF ~resp.error.isDict THEN Raises(ExcStrIndex, NoValue)
        ELSE IF ~resp.error.hasMsg THEN Raises(ExcKeyMessage, NoValue)
        ELSE Returns(Failure(resp.error.msg))
    ELSE Returns(Failure(UnknownFormatMessage))

\* mutant: `except OSError` in place of `except Exception`
CallToolCatch_OnlyOSError(ev) ==
    IF ev.raised /\ ev.exc = ExcBrokenPipe THEN Returns(Failure(ev.exc)) ELSE ev

\* call_tool, lines 268-273: the except clause around the whole body.
CallToolCatch(ev) ==
    IF ev.raised THEN Returns(Failure(ev.exc)) ELSE ev

(***************************************************************************)
(* discover_tools, lines 199-227.                                          *)
(***************************************************************************)
MCPTool(e) ==
    [name |-> e.name,
     description |-> IF e.hasDesc THEN e.desc ELSE "",
     parameters |-> IF e.hasSchema THEN e.schema ELSE "{}"]

\* The loop of lines 203-209: tool_data["name"] raises KeyError, and the
\* tools appended so far stay in self.tools.
RECURSIVE ParseTools(_, _)
ParseTools(ts, acc) ==
    IF ts = <<>> THEN Returns(acc)
    ELSE IF ~Head(ts).hasName THEN Raises(ExcKeyName, acc)
    ELSE ParseTools(Tail(ts), Append(acc, MCPTool(Head(ts))))

\* mutant: `return len(self.tools) > 0` in place of `return True`
DiscoverBody_NonEmpty(resp, old) ==
    IF ~Truthy(resp) THEN Returns([ret |-> FALSE, tools |-> old])
    ELSE IF resp.form = "number" THEN Raises(ExcNotIterable, [ret |-> FALSE, tools |-> old])
    ELSE IF ~resp.hasResult THEN Returns([ret |-> FALSE, tools |-> old])
    ELSE IF resp.result.t # "dict" THEN Raises(ExcNoGet, [ret |-> FALSE, tools |-> old])
    ELSE LET parsed == ParseTools(resp.result.tools, <<>>)
         IN  IF parsed.raised
             THEN Raises(parsed.exc, [ret |-> FALSE, tools |-> parsed.val])
             ELSE Returns([ret |-> Len(parsed.val) > 0, tools |-> parsed.val])

\* mutant: no `self.tools = []` before the loop: the tools are appended to the
\* catalog of the earlier discovery
DiscoverBody_Append(resp, old) ==
    IF ~Truthy(resp) THEN Returns([ret |-> FALSE, tools |-> old])
    ELSE IF resp.form = "number" THEN Raises(ExcNotIterable, [ret |-> FALSE, tools |-> old])
    ELSE IF ~resp.hasResult THEN Returns([ret |-> FALSE, tools |-> old])
    ELSE IF resp.result.t # "dict" THEN Raises(ExcNoGet, [ret |-> FALSE, tools |-> old])
    ELSE LET parsed == ParseTools(resp.result.tools, old)
         IN  IF parsed.raised
             THEN Raises(parsed.exc, [ret |-> FALSE, tools |-> parsed.val])
             ELSE Returns([ret |-> TRUE, tools |-> parsed.val])

\* val is [ret, tools]: the value returned and self.tools afterwards.
DiscoverBody(resp, old) ==
    IF ~Truthy(resp) THEN Returns([ret |-> FALSE, tools |-> old])
    ELSE IF resp.form = "number" THEN Raises(ExcNotIterable, [ret |-> FALSE, tools |-> old])
    ELSE IF ~resp.hasResult THEN Returns([ret |-> FALSE, tools |-> old])
    ELSE IF resp.result.t # "dict" THEN Raises(ExcNoGet, [ret |-> FALSE, tools |-> old])
    ELSE LET parsed == ParseTools(resp.result.tools, <<>>)
         IN  IF parsed.raised
             THEN Raises(parsed.exc, [ret |-> FALSE, tools |-> parsed.val])
             ELSE Returns([ret |-> TRUE, tools |-> parsed.val])

\* discover_tools, lines 229-231: the except clause returns False.
DiscoverCatch(ev) ==
    IF ev.raised THEN Returns([ret |-> FALSE, tools |-> ev.val.tools]) ELSE ev

(***************************************************************************)
(* get_forecast, lines 275-330, on the dict a call_tool attempt returned.  *)
(* What it returns to the user: kind "error" (line 311, with the error     *)
(* text), "data" (lines 314-327, the payload rendered) or "exception"      *)
(* (line 330, with the text of the exception raised inside get_forecast).  *)
(***************************************************************************)
NoReport == [kind |-> "none", text |-> "", data |-> NoPayload]
ReportError(m) == [kind |-> "error", text |-> m, data |-> NoPayload]
ReportData(d) == [kind |-> "data", text |-> "", data |-> d]
ReportException(e) == [kind |-> "exception", text |-> e, data |-> NoPayload]

\* lines 291 and 300: not result.get("success") or result.get("data", {}).get("isError")
RetryCond(result) ==
    IF result.success # "True" THEN Returns(TRUE)
    ELSE IF result.data.t = "null" THEN Raises(ExcNoneGet, FALSE)
    ELSE IF result.data.t = "list" THEN Raises(ExcListGet, FALSE)
    ELSE Returns(result.data.isError)

\* lines 310-327
Report(result) ==
    IF result.success # "True" THEN ReportError(result.error)
    ELSE IF result.data.t = "null" THEN ReportException(ExcNoneIn)
    ELSE ReportData(result.data)

(***************************************************************************)
(* list_discovered_tools, lines 381-390: tool.parameters.get raises on     *)
(* parameters that are truthy and no dict.                                 *)
(***************************************************************************)
ListDiscoveredTools(ts) ==
    IF \E i \in DOMAIN ts : ts[i].parameters = SchemaList
    THEN Raises(ExcListGet, NoValue)
    ELSE Returns(NoValue)

(***************************************************************************)
(* State.                                                                  *)
(*   connected, server_process, tools: the fields of the client object    *)
(*   procs: the child processes spawned so far, by handle 1..Len(procs):  *)
(*       status  "running", "outclosed" (stdout closed), "exited"         *)
(*       term    terminate() was called on it                             *)
(*   trace: the requests written to a child's stdin and the readline()    *)
(*       calls completed on a child's stdout since the last spawn, in     *)
(*       order (the first MaxLog of them)                                 *)
(*   th: per calling thread, where it stands in the operation it runs     *)
(*   ret: what the operation completed last returned, and what it saw     *)
(***************************************************************************)
VARIABLES connected, server_process, tools, procs, trace, th, ret

vars == <<connected, server_process, tools, procs, trace, th, ret>>

Methods == {"initialize", "notifications/initialized", "tools/list", "tools/call"}

\* params of a request: tool name and argument names of a tools/call request
NoParams == <<"-", "-">>
CallParams == { <<"GetForecast", "latitude,longitude">>, <<"GetAlerts", "state">> }

\* get_forecast, lines 284-306: the arguments of its call_tool attempts, in order
Shapes == <<"latitude,longitude", "location", "query">>

NewProc == [status |-> "running", term |-> FALSE]

\* wp: the process the request was written to; rp: the process readline() reads;
\* fc: inside get_forecast, the number of the call_tool attempt (else 0)
Idle == [pc |-> "idle", req |-> "-", params |-> NoParams, wp |-> None, rp |-> None, fc |-> 0]

Threads == DOMAIN th

\* An event of the trace: a request of the method written to ("w"), or a
\* readline() for its reply completed on ("r"), the pipes of process p.
Event(ev, method, p) == [ev |-> ev, method |-> method, p |-> p]

Record(log, e) == IF Len(log) < MaxLog THEN Append(log, e) ELSE log

\* request.get("id"): the notification carries no id
HasId(method) == method # "notifications/initialized"

\* The ids of the outstanding requests written to process p.
IdsSeen(p) == { c \in Threads : th[c].pc \in {"bind", "read"} /\ th[c].wp = p }

\* out: the evaluation of the operation as its caller sees it; disc: what
\* discover_tools returned inside a connect; line: the last line the operation
\* read; exc: the exception raised inside it, caught or not.
\* attempt, report: of get_forecast, the number of the call_tool attempt that
\* ended and what get_forecast returned to the user.
Ret(c, op, out, disc, line, exc) ==
    [who |-> c, op |-> op, raised |-> out.raised, val |-> out.val, disc |-> disc,
     line |-> line, exc |-> exc, attempt |-> 0, report |-> NoReport]

RetForecast(c, op, k, r, report, line, exc) ==
    [Ret(c, op, r, "-", line, exc) EXCEPT !.attempt = k, !.report = report]

BoolStr(b) == IF b THEN "True" ELSE "False"
ConnectValue(b) == [success |-> BoolStr(b), error |-> NoErrorKey, data |-> NoPayload]

Init ==
    /\ connected = FALSE
    /\ server_process = None
    /\ tools = <<>>
    /\ procs = <<>>
    /\ trace = <<>>
    /\ th = [c \in {"t1"} |-> Idle]
    /\ ret = [who |-> "-", op |-> "none", raised |-> FALSE, val |-> NoValue, disc |-> "-",
              line |-> NoRead, exc |-> NoExc, attempt |-> 0, report |-> NoReport]

(***************************************************************************)
(* What follows a send_request that returned or raised (ev), by the        *)
(* request it carried: initialize_mcp_session lines 142-160 with           *)
(* connect_to_mcp_server lines 113-119 and connect lines 372-379 around    *)
(* it, discover_tools lines 197-231, call_tool lines 250-273.              *)
(***************************************************************************)
NextRequest(c, method) ==
    /\ th' = [th EXCEPT ![c] = [Idle EXCEPT !.pc = "check", !.req = method]]
    /\ UNCHANGED <<connected, tools, ret>>

\* mutant: `self.connected = len(self.tools) > 0`, and connect fails without tools
AfterDiscover_GateOnCatalog(c, ev, line) ==
    LET body == IF ev.raised THEN Raises(ev.exc, [ret |-> FALSE, tools |-> tools])
                             ELSE DiscoverBody(ev.val, tools)
        d == DiscoverCatch(body)
        listed == ListDiscoveredTools(d.val.tools)
        out == IF listed.raised THEN listed ELSE Returns(ConnectValue(Len(d.val.tools) > 0))
    IN  /\ tools' = d.val.tools
        /\ connected' = (Len(d.val.tools) > 0)
        /\ th' = [th EXCEPT ![c] = Idle]
        /\ ret' = Ret(c, "connect", out, BoolStr(d.val.ret), line,
                      IF listed.raised THEN listed.exc ELSE body.exc)

\* discover_tools from line 197 on, then initialize_mcp_session lines 155-156,
\* connect_to_mcp_server line 115 and connect lines 373-379: connected is set,
\* and connect calls list_discovered_tools outside every try block.
AfterDiscover(c, ev, line) ==
    LET body == IF ev.raised THEN Raises(ev.exc, [ret |-> FALSE, tools |-> tools])
                             ELSE DiscoverBody(ev.val, tools)
        d == DiscoverCatch(body)
        listed == ListDiscoveredTools(d.val.tools)
        out == IF listed.raised THEN listed ELSE Returns(ConnectValue(TRUE))
    IN  /\ tools' = d.val.tools
        /\ connected' = TRUE
        /\ th' = [th EXCEPT ![c] = Idle]
        /\ ret' = Ret(c, "connect", out, BoolStr(d.val.ret), line,
                      IF listed.raised THEN listed.exc ELSE body.exc)

\* What follows a call_tool that returned r: its caller has the result, or,
\* inside get_forecast (lines 283-330), the next attempt or the report.
AfterCall(c, r, line, exc) ==
    LET k == th[c].fc
        cond == IF k < Len(Shapes) THEN RetryCond(r.val) ELSE Returns(FALSE)
    IN  IF k = 0
        THEN /\ th' = [th EXCEPT ![c] = Idle]
             /\ ret' = Ret(c, "call_tool", r, "-", line, exc)
        ELSE IF cond.raised
        THEN /\ th' = [th EXCEPT ![c] = Idle]
             /\ ret' = RetForecast(c, "get_forecast", k, r, ReportException(cond.exc), line, exc)
        ELSE IF cond.val
        THEN /\ th' = [th EXCEPT ![c] = [Idle EXCEPT !.pc = "call", !.fc = k + 1,
                                                     !.params = <<"GetForecast", Shapes[k + 1]>>]]
             /\ ret' = RetForecast(c, "call_tool", k, r, NoReport, line, exc)
        ELSE /\ th' = [th EXCEPT ![c] = Idle]
             /\ ret' = RetForecast(c, "get_forecast", k, r, Report(r.val), line, exc)

AfterSend(c, ev, line) ==
    LET req == th[c].req IN
    IF req \in {"initialize", "notifications/initialized"} THEN
        IF ev.raised
        THEN /\ th' = [th EXCEPT ![c] = Idle]
             /\ ret' = Ret(c, "connect", Returns(ConnectValue(FALSE)), "-", line, ev.exc)
             /\ UNCHANGED <<connected, tools>>
        ELSE NextRequest(c, IF req = "initialize" THEN "notifications/initialized"
                                                  ELSE "tools/list")
    ELSE IF req = "tools/list" THEN AfterDiscover(c, ev, line)
    ELSE
        LET body == IF ev.raised THEN Raises(ev.exc, NoValue) ELSE CallToolBody(ev.val)
            r == CallToolCatch(body)
        IN  /\ AfterCall(c, r, line, body.exc)
            /\ UNCHANGED <<connected, tools>>


(***************************************************************************)
(* connect / connect_to_mcp_server, lines 77-119 and 368-379.              *)
(***************************************************************************)
\* get_weather_server_config gave nothing, or a config without a command.
ConnectNoConfig(c) ==
    /\ th[c].pc = "idle"
    /\ ret' = Ret(c, "connect", Returns(ConnectValue(FALSE)), "-", NoRead, NoExc)
    /\ UNCHANGED <<connected, server_process, tools, procs, trace, th>>

\* subprocess.Popen raises (the command cannot be started).
ConnectSpawnFails(c) ==
    /\ th[c].pc = "idle"
    /\ ret' = Ret(c, "connect", Returns(ConnectValue(FALSE)), "-", NoRead, ExcSpawn)
    /\ UNCHANGED <<connected, server_process, tools, procs, trace, th>>

\* Popen succeeds: the new handle replaces server_process; then sleep(2).
ConnectSpawn(c) ==
    /\ th[c].pc = "idle"
    /\ Len(procs) < MaxProcs
    /\ procs' = Append(procs, NewProc)
    /\ trace' = <<>>
    /\ server_process' = Len(procs) + 1
    /\ th' = [th EXCEPT ![c] = [Idle EXCEPT !.pc = "sleep"]]
    /\ UNCHANGED <<connected, tools, ret>>

\* The sleep is over: initialize_mcp_session starts with the initialize request.
ConnectAwake(c) ==
    /\ th[c].pc = "sleep"
    /\ th' = [th EXCEPT ![c] = [Idle EXCEPT !.pc = "check", !.req = "initialize"]]
    /\ UNCHANGED <<connected, server_process, tools, procs, trace, ret>>

(***************************************************************************)
(* call_tool, lines 233-250: the guard, then send_request.                 *)
(***************************************************************************)

\* mutant: the guard looks at the process handle, not at the connected flag
CallToolStart_HandleGuard(c, params) ==
    /\ th[c].pc = "idle"
    /\ IF server_process = None
       THEN /\ ret' = Ret(c, "call_tool", Returns(NotConnected), "-", NoRead, NoExc)
            /\ UNCHANGED th
       ELSE /\ th' = [th EXCEPT ![c] = [Idle EXCEPT !.pc = "check", !.req = "tools/call",
                                                    !.params = params]]
            /\ UNCHANGED ret
    /\ UNCHANGED <<connected, server_process, tools, procs, trace>>

CallToolStart(c, params) ==
    /\ th[c].pc = "idle"
    /\ IF ~connected
       THEN /\ ret' = Ret(c, "call_tool", Returns(NotConnected), "-", NoRead, NoExc)
            /\ UNCHANGED th
       ELSE /\ th' = [th EXCEPT ![c] = [Idle EXCEPT !.pc = "check", !.req = "tools/call",
                                                    !.params = params]]
            /\ UNCHANGED ret
    /\ UNCHANGED <<connected, server_process, tools, procs, trace>>

(***************************************************************************)
(* get_forecast, lines 275-330: up to three call_tool attempts.            *)
(***************************************************************************)
\* lines 277-284: the first attempt is about to enter call_tool
GetForecastStart(c) ==
    /\ th[c].pc = "idle"
    /\ th' = [th EXCEPT ![c] = [Idle EXCEPT !.pc = "call", !.fc = 1,
                                            !.params = <<"GetForecast", Shapes[1]>>]]
    /\ UNCHANGED <<connected, server_process, tools, procs, trace, ret>>

\* call_tool lines 235-250, entered from get_forecast
GetForecastCall(c) ==
    /\ th[c].pc = "call"
    /\ IF ~connected
       THEN AfterCall(c, Returns(NotConnected), NoRead, NoExc)
       ELSE /\ th' = [th EXCEPT ![c].pc = "check", ![c].req = "tools/call"]
            /\ UNCHANGED ret
    /\ UNCHANGED <<connected, server_process, tools, procs, trace>>

(***************************************************************************)
(* send_request, lines 162-185, in the steps at which another thread can   *)
(* come in between: the handle check, the write and flush, the lookup of   *)
(* the handle for readline(), and the return of readline().                *)
(***************************************************************************)
\* lines 164-165
SendCheck(c) ==
    /\ th[c].pc = "check"
    /\ IF server_process = None
       THEN AfterSend(c, Raises(ExcNotStarted, Plain("emptyobj")), NoRead)
       ELSE /\ th' = [th EXCEPT ![c].pc = "write"]
            /\ UNCHANGED <<connected, tools, ret>>
    /\ UNCHANGED <<server_process, procs, trace>>

\* lines 169-171 and 174
SendWrite(c) ==
    /\ th[c].pc = "write"
    /\ IF server_process = None
       THEN /\ AfterSend(c, Raises(ExcNoneStdin, Plain("emptyobj")), NoRead)
            /\ UNCHANGED trace
       ELSE IF procs[server_process].status = "exited"
       THEN /\ AfterSend(c, Raises(ExcBrokenPipe, Plain("emptyobj")), NoRead)
            /\ UNCHANGED trace
       ELSE LET p == server_process
                e == Event("w", th[c].req, p)
            IN  /\ trace' = Record(trace, e)
                /\ IF HasId(th[c].req)
                   THEN /\ th' = [th EXCEPT ![c].pc = "bind", ![c].wp = p]
                        /\ UNCHANGED <<connected, tools, ret>>
                   ELSE AfterSend(c, Returns(Plain("emptyobj")), NoRead)
    /\ UNCHANGED <<server_process, procs>>

\* line 175: self.server_process.stdout is looked up, readline() is entered
SendBind(c) ==
    /\ th[c].pc = "bind"
    /\ IF server_process = None
       THEN AfterSend(c, Raises(ExcNoneStdout, Plain("emptyobj")), NoRead)
       ELSE /\ th' = [th EXCEPT ![c].pc = "read", ![c].rp = server_process]
            /\ UNCHANGED <<connected, tools, ret>>
    /\ UNCHANGED <<server_process, procs, trace>>

\* mutant: an empty read is retried, `while not response_line: readline()`
ReadOutcomes_RetryEmpty(status, lines) ==
    IF status = "running" THEN lines ELSE {}

\* line 175: what readline() can return: a line the child prints while its
\* stdout is open (readline() blocks until there is one), '' once it is closed.
ReadOutcomes(status, lines) ==
    IF status = "running" THEN lines ELSE {Eof}

\* lines 175-181
SendRead(c) ==
    /\ th[c].pc = "read"
    /\ LET p == th[c].rp
           e == Event("r", th[c].req, p)
       IN  /\ trace' = Record(trace, e)
           /\ \E line \in ReadOutcomes(procs[p].status, LinesWith(th[c].req, IdsSeen(p))) :
                  AfterSend(c, ParseLine(line), line)
    /\ UNCHANGED <<server_process, procs>>

(***************************************************************************)
(* disconnect, lines 392-398.                                              *)
(***************************************************************************)
\* mutant: no `if self.server_process:` around terminate(): without a handle,
\* None.terminate() raises before the flag is cleared
Disconnect_Unguarded(c) ==
    /\ th[c].pc = "idle"
    /\ IF server_process # None
       THEN /\ procs' = [procs EXCEPT ![server_process].term = TRUE]
            /\ server_process' = None
            /\ connected' = FALSE
            /\ ret' = Ret(c, "disconnect", Returns(NoValue), "-", NoRead, NoExc)
       ELSE /\ ret' = Ret(c, "disconnect",
                          Raises("'NoneType' object has no attribute 'terminate'", NoValue),
                          "-", NoRead, "'NoneType' object has no attribute 'terminate'")
            /\ UNCHANGED <<procs, server_process, connected>>
    /\ UNCHANGED <<tools, trace, th>>

\* mutant: disconnect drops the handle and the flag without terminate()
Disconnect_NoTerminate(c) ==
    /\ th[c].pc = "idle"
    /\ server_process' = None
    /\ connected' = FALSE
    /\ ret' = Ret(c, "disconnect", Returns(NoValue), "-", NoRead, NoExc)
    /\ UNCHANGED <<procs, tools, trace, th>>

\* mutant: disconnect without `self.connected = False`
Disconnect_KeepFlag(c) ==
    /\ th[c].pc = "idle"
    /\ IF server_process # None
       THEN procs' = [procs EXCEPT ![server_process].term = TRUE]
       ELSE UNCHANGED procs
    /\ server_process' = None
    /\ ret' = Ret(c, "disconnect", Returns(NoValue), "-", NoRead, NoExc)
    /\ UNCHANGED <<connected, tools, trace, th>>

Disconnect(c) ==
    /\ th[c].pc = "idle"
    /\ IF server_process # None
       THEN procs' = [procs EXCEPT ![server_process].term = TRUE]
       ELSE UNCHANGED procs
    /\ server_process' = None
    /\ connected' = FALSE
    /\ ret' = Ret(c, "disconnect", Returns(NoValue), "-", NoRead, NoExc)
    /\ UNCHANGED <<tools, trace, th>>

(***************************************************************************)
(* The child process: it may close its stdout, and it may exit (on its own *)
(* or after terminate()).                                                  *)
(***************************************************************************)
ChildClosesStdout(p) ==
    /\ procs[p].status = "running"
    /\ procs' = [procs EXCEPT ![p].status = "outclosed"]
    /\ UNCHANGED <<connected, server_process, tools, trace, th, ret>>

ChildExits(p) ==
    /\ procs[p].status # "exited"
    /\ procs' = [procs EXCEPT ![p].status = "exited"]
    /\ UNCHANGED <<connected, server_process, tools, trace, th, ret>>

Next ==
    \/ \E c \in Threads : ConnectNoConfig(c)
    \/ \E c \in Threads : ConnectSpawnFails(c)
    \/ \E c \in Threads : ConnectSpawn(c)
    \/ \E c \in Threads : ConnectAwake(c)
    \/ \E c \in Threads, params \in CallParams : CallToolStart(c, params)
    \/ \E c \in Threads : SendCheck(c)
    \/ \E c \in Threads : SendWrite(c)
    \/ \E c \in Threads : SendBind(c)
    \/ \E c \in Threads : SendRead(c)
    \/ \E c \in Threads : Disconnect(c)
    \/ \E p \in DOMAIN procs : ChildClosesStdout(p)
    \/ \E p \in DOMAIN procs : ChildExits(p)

\* One thread calls the client: every operation runs to its end before the next.
Spec == Init /\ [][Next]_vars

(***************************************************************************)
(* Two threads call call_tool and disconnect on an established connection: *)
(* the state after a connect whose tools/list reply listed two tools.      *)
(***************************************************************************)
ConnectedLine ==
    Obj(TRUE, PTools(<<[hasName |-> TRUE, name |-> "get_forecast", hasDesc |-> FALSE,
                        desc |-> "", hasSchema |-> FALSE, schema |-> ""],
                       [hasName |-> TRUE, name |-> "get_alerts", hasDesc |-> TRUE,
                        desc |-> "Get alerts", hasSchema |-> TRUE,
                        schema |-> SchemaDict]>>), FALSE, NoErr, "t1")

ConnectedState ==
    /\ connected = TRUE
    /\ server_process = 1
    /\ tools = ParseTools(ConnectedLine.result.tools, <<>>).val
    /\ procs = <<NewProc>>
    /\ trace = <<Event("w", "initialize", 1), Event("r", "initialize", 1),
                 Event("w", "notifications/initialized", 1),
                 Event("w", "tools/list", 1), Event("r", "tools/list", 1)>>
    /\ ret = [who |-> "t1", op |-> "connect", raised |-> FALSE, val |-> ConnectValue(TRUE),
              disc |-> "True", line |-> ConnectedLine, exc |-> NoExc,
              attempt |-> 0, report |-> NoReport]

InitConc ==
    /\ ConnectedState
    /\ th = [c \in Callers |-> Idle]

NextConc ==
    \/ \E c \in Threads, params \in CallParams : CallToolStart(c, params)
    \/ \E c \in Threads : SendCheck(c)
    \/ \E c \in Threads : SendWrite(c)
    \/ \E c \in Threads : SendBind(c)
    \/ \E c \in Threads : SendRead(c)
    \/ \E c \in Threads : Disconnect(c)
    \/ \E p \in DOMAIN procs : ChildClosesStdout(p)
    \/ \E p \in DOMAIN procs : ChildExits(p)

SpecConc == InitConc /\ [][NextConc]_vars

\* The state two threads start from is one a single thread's connect reaches.
ConnectedReached == ConnectedState /\ th["t1"] = Idle


\* Two threads, and a readline() that is blocked returns when its pipe has a
\* line or is closed: the operating system wakes the reader.
FairConc == SpecConc /\ \A c \in Callers : WF_vars(SendRead(c))

(***************************************************************************)
(* One thread calls get_forecast and disconnect on an established          *)
(* connection.                                                             *)
(***************************************************************************)
InitForecast ==
    /\ ConnectedState
    /\ th = [c \in {"t1"} |-> Idle]

NextForecast ==
    \/ \E c \in Threads : GetForecastStart(c)
    \/ \E c \in Threads : GetForecastCall(c)
    \/ \E c \in Threads : SendCheck(c)
    \/ \E c \in Threads : SendWrite(c)
    \/ \E c \in Threads : SendBind(c)
    \/ \E c \in Threads : SendRead(c)
    \/ \E c \in Threads : Disconnect(c)
    \/ \E p \in DOMAIN procs : ChildClosesStdout(p)
    \/ \E p \in DOMAIN procs : ChildExits(p)

SpecForecast == InitForecast /\ [][NextForecast]_vars

(***************************************************************************)
(* Properties.                                                             *)
(***************************************************************************)

\* C1: whenever connected is false, call_tool returns at once, for every tool
\* name and arguments and every thread, the dict with the fixed message
\* 'Not connected to MCP server' and no success key, without raising, and
\* nothing is written to or read from any child.
C1_NotConnectedFixedFailure ==
    [][\A c \in Threads, params \in CallParams :
          (~connected /\ CallToolStart(c, params)) =>
              /\ ret'.who = c /\ ret'.op = "call_tool"
              /\ ~ret'.raised
              /\ ret'.val = NotConnected
              /\ ret'.val.error = NotConnectedMessage /\ ret'.val.success # "True"
              /\ th'[c].pc = "idle"
              /\ UNCHANGED <<procs, trace>>]_vars

\* C1 witness: a call refused after a failed connect, with a child process at hand.
C1_Witness ==
    /\ ret.op = "call_tool" /\ ret.val = NotConnected
    /\ ~connected /\ server_process # None /\ procs[server_process].status = "running"
    /\ \A c \in Threads : th[c].pc = "idle"

\* C2: a call_tool whose reply line is an object with a result member returns
\* success with exactly that result as data (whatever else the line holds).
C2_ResultReturnedUnmodified ==
    (ret.op = "call_tool" /\ ret.line.form = "object" /\ ret.line.hasResult) =>
        /\ ~ret.raised
        /\ ret.val.success = "True"
        /\ ret.val.data = ret.line.result
        /\ ret.val.error = NoErrorKey

\* C2 witness: a null result came back as success with data null.
C2_Witness ==
    /\ ret.op = "call_tool" /\ ret.line.form = "object" /\ ret.line.hasResult
    /\ ret.line.result = PNull /\ ret.val = Success(PNull)

\* C3 as stated: a call_tool whose reply line holds an error member with
\* message M returns failure with error M.
C3_Original ==
    (/\ ret.op = "call_tool" /\ ret.line.form = "object"
     /\ ret.line.hasError /\ ret.line.error.isDict /\ ret.line.error.hasMsg) =>
        ret.val = Failure(ret.line.error.msg)

\* C3 amended: a call_tool whose reply line holds an error member with
\* message M and no result member returns failure with error M; with a
\* result member beside the error it returns success with that result.
C3_ErrorMessageReturned ==
    (/\ ret.op = "call_tool" /\ ret.line.form = "object"
     /\ ret.line.hasError /\ ret.line.error.isDict /\ ret.line.error.hasMsg) =>
        /\ ~ret.raised
        /\ ~ret.line.hasResult => ret.val = Failure(ret.line.error.msg)
        /\ ret.line.hasResult => ret.val = Success(ret.line.result)

\* C3 witness: the remote message came back as the error of a failure.
C3_Witness ==
    /\ ret.op = "call_tool" /\ ret.line.form = "object" /\ ~ret.line.hasResult
    /\ ret.line.hasError /\ ret.line.error = ErrMsg("Unknown tool")
    /\ ret.val = Failure("Unknown tool")

\* C4: a call_tool whose reply line is a JSON object with neither a result
\* nor an error member returns failure with 'Unknown response format'.
C4_NeitherIsUnknownFormat ==
    (/\ ret.op = "call_tool" /\ ret.line.form \in {"object", "emptyobj"}
     /\ ~ret.line.hasResult /\ ~ret.line.hasError) =>
        /\ ~ret.raised
        /\ ret.val = Failure(UnknownFormatMessage)

\* C4 witness: an object with only the jsonrpc and id members was answered so.
C4_Witness ==
    /\ ret.op = "call_tool" /\ ret.line.form = "object"
    /\ ~ret.line.hasResult /\ ~ret.line.hasError /\ ret.line.id = ret.who
    /\ ret.val = Failure(UnknownFormatMessage)

\* C5 as stated: a call_tool whose reply line is no JSON text returns failure
\* with 'Unknown response format'.
C5_Original ==
    (ret.op = "call_tool" /\ ret.line.form = "malformed") =>
        ret.val = Failure(UnknownFormatMessage)

\* C5 amended: a call_tool whose reply line is no JSON text returns failure
\* with the text of the JSON decoder's exception, which is not the message
\* 'Unknown response format' it returns for a body without result and error.
C5_MalformedIsDecoderText ==
    (ret.op = "call_tool" /\ ret.line.form = "malformed") =>
        /\ ~ret.raised
        /\ ret.val = Failure(ExcJSONDecode)
        /\ ret.val.error # UnknownFormatMessage

\* C5 witness: a call that read a line that is no JSON text.
C5_Witness ==
    /\ ret.op = "call_tool" /\ ret.line.form = "malformed" /\ ret.exc = ExcJSONDecode

\* C6: no exception escapes call_tool, and when one was raised inside it
\* (by the handle check, the write, the readline lookup, the JSON decoder or
\* the reading of the response) the result is failure with that exception's text.
C6_NoExceptionEscapes ==
    ret.op = "call_tool" =>
        /\ ~ret.raised
        /\ ret.exc # NoExc => ret.val = Failure(ret.exc)

\* C6 witness: the process handle was gone when send_request looked at it.
C6_Witness ==
    /\ ret.op = "call_tool" /\ ret.exc = ExcNotStarted /\ ret.val = Failure(ExcNotStarted)

\* C7: a call_tool that has written its request and waits in readline() on a
\* child whose stdout is closed does return, and what it returns is a failure
\* result: it does not raise.
C7_ClosedStreamFailure ==
    \A c \in Callers :
        (/\ th[c].pc = "read" /\ th[c].req = "tools/call"
         /\ procs[th[c].rp].status # "running")
        ~> (/\ th[c].pc = "idle"
            /\ ret.who = c /\ ret.op = "call_tool" /\ ret.line = Eof
            /\ ~ret.raised /\ ret.val.success = "False")

\* C7 witness: the call returned after the child closed its stdout mid-call.
C7_Witness ==
    /\ ret.op = "call_tool" /\ ret.line = Eof /\ ret.val = Failure(UnknownFormatMessage)
    /\ procs[1].status = "outclosed"


\* The events of a handshake on the pipes of process p, in the order of
\* initialize_mcp_session: initialize written, its reply read, the
\* notification written (nothing read for it), tools/list written, its
\* reply read.
Handshake(p) ==
    <<Event("w", "initialize", p), Event("r", "initialize", p),
      Event("w", "notifications/initialized", p),
      Event("w", "tools/list", p), Event("r", "tools/list", p)>>

\* C8: after every spawn the events on the child's pipes follow the
\* handshake order, one by one, so that a tools/call request is written only
\* after the five events of the handshake, the tools/list exchange last.
C8_HandshakeBeforeCalls ==
    \A i \in DOMAIN trace :
        /\ i <= Len(Handshake(trace[1].p)) => trace[i] = Handshake(trace[1].p)[i]
        /\ trace[i].method = "tools/call" => i > Len(Handshake(trace[1].p))

\* C9: connected turns true only in a connect whose discover_tools returned
\* True, and after a connect in which a handshake step raised an exception
\* (the spawn itself apart) connected is false.
C9_ConnectedOnlyAfterDiscovery ==
    /\ [][(~connected /\ connected') => (ret'.op = "connect" /\ ret'.disc = "True")]_vars
    /\ []((/\ ret.op = "connect" /\ ret.exc \notin {NoExc, ExcSpawn}
           /\ \A c \in Threads : th[c].pc = "idle") => ~connected)

\* The tools parsed from a tools/list reply: the entries before the first one
\* without a name, when the line is an object whose result is an object.
ParsedCount(line) ==
    IF line.form = "object" /\ line.hasResult /\ line.result.t = "dict"
    THEN Cardinality({ i \in DOMAIN line.result.tools :
                          \A j \in 1..i : line.result.tools[j].hasName })
    ELSE 0

\* A tools/list reply discover_tools accepts: an object whose result is an
\* object, every entry of its tools list (if any) with a name.
ListAccepted(line) ==
    /\ line.form = "object" /\ line.hasResult /\ line.result.t = "dict"
    /\ \A i \in DOMAIN line.result.tools : line.result.tools[i].hasName

C11_EmptyCatalogStillConnects ==
    (/\ ret.op = "connect" /\ ret.disc # "-"
     /\ ret.line.form = "object" /\ ret.line.hasResult /\ ret.line.result = PTools(<<>>)) =>
        /\ connected
        /\ tools = <<>>
        /\ ~ret.raised
        /\ ret.val = ConnectValue(TRUE)

\* C11 witness: a connect whose handshake ran in full and whose tools/list reply
\* listed no tool.
C11_Witness ==
    /\ ret.op = "connect" /\ ret.line.form = "object" /\ ret.line.result = PTools(<<>>)
    /\ ret.line.id = ret.who /\ ~ret.line.hasError
    /\ ret.val = ConnectValue(TRUE) /\ connected /\ tools = <<>>
    /\ server_process = 1 /\ procs[1].status = "running"
    /\ trace = Handshake(1)

\* C12: after a discovery on a tools/list reply that is an object whose result
\* is an object and whose entries all have a name, the catalog holds one
\* descriptor per entry, in the entries' order, with the entry's name, its
\* description or "" and its inputSchema or the empty structure, and nothing
\* else: nothing of the catalog of an earlier discovery is left.
C12_CatalogMirrorsResponse ==
    (ret.op = "connect" /\ ret.disc # "-" /\ ListAccepted(ret.line)) =>
        /\ Len(tools) = Len(ret.line.result.tools)
        /\ \A i \in DOMAIN tools :
              LET e == ret.line.result.tools[i]
              IN  /\ tools[i].name = e.name
                  /\ tools[i].description = (IF e.hasDesc THEN e.desc ELSE "")
                  /\ tools[i].parameters = (IF e.hasSchema THEN e.schema ELSE "{}")

\* C12 witness: the discovery of a second connect, on a reply that lists
\* get_forecast (name only) and then get_alerts (with description and schema).
C12_Witness ==
    /\ Len(procs) = 2 /\ server_process = 2 /\ trace = Handshake(2)
    /\ ret.op = "connect" /\ ret.disc = "True" /\ ListAccepted(ret.line)
    /\ Len(ret.line.result.tools) = 2
    /\ ret.line.result.tools[1].name = "get_forecast"
    /\ ret.line.result.tools[2].name = "get_alerts"
    /\ tools = <<[name |-> "get_forecast", description |-> "", parameters |-> "{}"],
                 [name |-> "get_alerts", description |-> "Get alerts",
                  parameters |-> SchemaDict]>>

\* C13: disconnect raises nothing and leaves connected false and the process
\* handle absent, in whatever state it is called; called right after a
\* disconnect it changes nothing, and called without a process handle it
\* touches no process and changes nothing but the connected flag.
C13_DisconnectIdempotent ==
    /\ []((ret.op = "disconnect" /\ \A c \in Threads : th[c].pc = "idle") =>
             (~ret.raised /\ ~connected /\ server_process = None))
    /\ [][\A c \in Threads :
             /\ Disconnect(c) => (~ret'.raised /\ ~connected' /\ server_process' = None)
             /\ (Disconnect(c) /\ ret.op = "disconnect" /\ \A d \in Threads : th[d].pc = "idle")
                   => UNCHANGED <<connected, server_process, tools, procs, trace, th>>
             /\ (Disconnect(c) /\ server_process = None)
                   => UNCHANGED <<server_process, tools, procs, trace, th>>]_vars

\* C13 witness: the state after a disconnect of an established connection (and
\* after every further disconnect): the child was sent terminate(), the handle
\* and the flag are cleared.
C13_Witness ==
    /\ ret.op = "disconnect" /\ ~ret.raised
    /\ \A c \in Threads : th[c].pc = "idle"
    /\ ~connected /\ server_process = None
    /\ Len(procs) = 1 /\ procs[1].term /\ trace = Handshake(1) /\ Len(tools) = 2

\* A caller whose tools/call request is written and whose response is not read yet.
InFlight(c) == th[c].req = "tools/call" /\ th[c].pc \in {"bind", "read"}

\* C14: at most one call is in flight at a time: no two callers are at once
\* between the write of their request and the return of their readline(), and
\* no call_tool returns the line that carries the id of the other caller's
\* request.
C14_OneCallInFlight ==
    /\ \A c, d \in Threads : (InFlight(c) /\ InFlight(d)) => c = d
    /\ (ret.op = "call_tool" /\ ret.line.form = "object" /\ ret.line.id \in Threads)
           => ret.line.id = ret.who

\* C15: every response line an operation consumed and turned into its outcome
\* carries the id of the request the operation had outstanding (written here
\* as the name of the thread that sent it).
C15_ResponseMatchesRequest ==
    (/\ ret.op \in {"connect", "call_tool"}
     /\ ret.line.form = "object" /\ (ret.line.hasResult \/ ret.line.hasError))
        => ret.line.id = ret.who

\* C16: when a connect returns False after it spawned a child (a step of the
\* handshake raised), that child, the last one spawned, has exited or has had
\* terminate() called on it, and the client holds no handle to a child that
\* has not exited.
C16_FailedConnectReleasesChild ==
    (/\ ret.op = "connect" /\ ~ret.raised /\ ret.val = ConnectValue(FALSE)
     /\ ret.exc \notin {NoExc, ExcSpawn}
     /\ \A c \in Threads : th[c].pc = "idle") =>
        /\ procs[Len(procs)].term \/ procs[Len(procs)].status = "exited"
        /\ server_process = None \/ procs[server_process].status = "exited"

\* A child the client left alive: it has not exited and terminate() was never
\* called on it.
LeftAlive(p) == procs[p].status # "exited" /\ ~procs[p].term

\* C17: at most one child spawned by the client is left alive, whatever
\* connects and disconnects were made.
C17_AtMostOneChildAlive ==
    Cardinality({ p \in DOMAIN procs : LeftAlive(p) }) <= 1

\* C18: no exception escapes connect: whatever the configuration, the spawn
\* and the child's replies, it returns True or False.
C18_ConnectNeverRaises ==
    ret.op = "connect" => (~ret.raised /\ ret.val \in {ConnectValue(TRUE), ConnectValue(FALSE)})

\* C19, the attempts: get_forecast issues at most three call_tool attempts,
\* attempt k with the k-th of the argument shapes (latitude and longitude,
\* location, query); attempt k+1 follows attempt k only when that one returned
\* a failure or a payload with isError set, and no attempt follows one that
\* returned success without the flag.
C19_AttemptsInOrder ==
    /\ [](\A c \in Threads :
             /\ th[c].fc \in 0..3
             /\ th[c].fc > 0 =>
                   th[c].params = <<"GetForecast",
                                    <<"latitude,longitude", "location", "query">>[th[c].fc]>>)
    /\ [][\A c \in Threads :
             /\ (th[c].fc = 0 /\ th'[c].fc > 0) => th'[c].fc = 1
             /\ (th[c].fc > 0 /\ th'[c].fc > 0 /\ th'[c].fc # th[c].fc) =>
                   /\ th'[c].fc = th[c].fc + 1
                   /\ ret'.who = c /\ ret'.op = "call_tool" /\ ret'.attempt = th[c].fc
                   /\ ret'.val.success # "True" \/ ret'.val.data.isError
             /\ (/\ th[c].fc > 0 /\ ret' # ret /\ ret'.who = c
                 /\ ret'.val.success = "True" /\ ~ret'.val.data.isError) =>
                   th'[c].pc = "idle"]_vars

\* C19: the attempts as above, and what get_forecast reports to the user is
\* the outcome of the last attempt issued: its error text when it returned a
\* failure, its payload when it returned success.
C19_ForecastRetryPolicy ==
    /\ C19_AttemptsInOrder
    /\ [](ret.op = "get_forecast" =>
             ret.report = (IF ret.val.success = "True" THEN ReportData(ret.val.data)
                                                       ELSE ReportError(ret.val.error)))

\* C20: a disconnect made by another caller while a call_tool waits in
\* readline() calls terminate() on the child the call reads from and leaves
\* the call waiting; once that child has exited, the call does return, with
\* a failure result made of the end of stream it read, and does not raise.
C20_DisconnectAbortsBlockedCall ==
    /\ [][\A c, d \in Callers :
             (/\ c # d /\ Disconnect(d)
              /\ th[c].pc = "read" /\ th[c].req = "tools/call" /\ server_process = th[c].rp)
                 => (th'[c] = th[c] /\ procs'[th[c].rp].term)]_vars
    /\ \A c \in Callers :
          (/\ th[c].pc = "read" /\ th[c].req = "tools/call"
           /\ procs[th[c].rp].term /\ procs[th[c].rp].status = "exited")
          ~> (/\ th[c].pc = "idle"
              /\ ret.who = c /\ ret.op = "call_tool" /\ ret.line = Eof
              /\ ~ret.raised /\ ret.val = Failure(UnknownFormatMessage))

\* C20 witness: the call returned its failure after the other caller's
\* disconnect and the exit of the child.
C20_Witness ==
    /\ ret.op = "call_tool" /\ ret.line = Eof /\ ret.val = Failure(UnknownFormatMessage)
    /\ ~connected /\ server_process = None
    /\ procs[1].term /\ procs[1].status = "exited"
    /\ \E d \in Callers : d # ret.who /\ th[d].pc = "idle"

\* C21: in every state reached by connects (failed ones and reconnects
\* included), call_tools and disconnects made one after the other, connected
\* being true implies that the client holds a process handle.
C21_ConnectedImpliesHandle ==
    connected => server_process # None

\* C21 witness: a reconnect has failed: connect returned False, connected is
\* still true from the first connection, and the handle is that of the second
\* child.
C21_Witness ==
    /\ connected /\ server_process = 2
    /\ ret.op = "connect" /\ ret.val = ConnectValue(FALSE) /\ ret.exc = ExcJSONDecode
    /\ \A c \in Threads : th[c].pc = "idle"

\* C22: a connect whose discover_tools returned False (no reply line, a reply
\* without a result member, an exception of the transport, an entry without
\* a name) leaves the tool catalog as it was before.
C22_FailedDiscoveryKeepsCatalog ==
    [][\A c \in Threads :
          (/\ th[c].req = "tools/list" /\ th'[c].pc = "idle"
           /\ ret'.op = "connect" /\ ret'.disc = "False")
              => tools' = tools]_vars

====
